---- MODULE Spec2Model ----
(***************************************************************************)
(* Imageverto: a browser image-format converter (src/script.js).           *)
(*                                                                         *)
(* The model is the ImageConverter object together with the DOM elements   *)
(* it drives.  Every event listener of the class is one action; a handler  *)
(* is an operator from a state record to a state record, so that a         *)
(* listener which calls several methods is the composition of them.        *)
(* Strings the code inspects character by character (file names, media     *)
(* types, format identifiers) are sequences of one-character strings.      *)
(***************************************************************************)
EXTENDS Integers, Sequences, FiniteSets, TLC

VARIABLES
    currentFile,    \* this.currentFile
    formatValue,    \* document.getElementById('formatSelect').value
    hidden,         \* id -> whether the element carries the class 'hidden'
    errorMessage,   \* textContent of #errorMessage
    convertBtn,     \* [disabled, processing] of #convertBtn
    progress,       \* [percent, text] of #progressBar / #progressText
    preview,        \* the file shown by #previewImg / #fileName / #fileInfo
    previewReads,   \* FileReaders of showImagePreview still reading
    convs,          \* the conversions started by convertImage, in order
    download        \* [href, fileName] of #downloadLink, or NoDownload

vars == <<currentFile, formatValue, hidden, errorMessage, convertBtn, progress,
          preview, previewReads, convs, download>>

-----------------------------------------------------------------------------
(* Bounds *)

MaxConversions == 1
MaxPreviewReads == 2
\* conversions started in the specification of repeated conversions
MaxRepeats == 2

-----------------------------------------------------------------------------
(* Characters and strings *)

LowerCase == {"a","b","c","d","e","f","g","h","i","j","k","l","m",
              "n","o","p","q","r","s","t","u","v","w","x","y","z"}
UpperCase == {"A","B","C","D","E","F","G","H","I","J","K","L","M",
              "N","O","P","Q","R","S","T","U","V","W","X","Y","Z"}
Digit == {"0","1","2","3","4","5","6","7","8","9"}

\* the complement of the class [^a-zA-Z0-9-_]
SafeChar == LowerCase \cup UpperCase \cup Digit \cup {"-", "_"}

\* String.prototype.startsWith
startsWith(s, p) == Len(s) >= Len(p) /\ SubSeq(s, 1, Len(p)) = p

\* name.replace(/[^a-zA-Z0-9-_]/g, '')
IsSafeChar(c) == c \in SafeChar
replaceUnsafe(s) == SelectSeq(s, IsSafeChar)

\* s.split('.')[0]: the part before the first '.', all of s when it has none
splitDotFirst(s) ==
    LET dots == {i \in 1..Len(s) : s[i] = "."}
    IN  IF dots = {} THEN s
        ELSE SubSeq(s, 1, (CHOOSE i \in dots : \A j \in dots : i <= j) - 1)

ImageSlash == <<"i","m","a","g","e","/">>
ConvertedDot == <<"_","c","o","n","v","e","r","t","e","d",".">>

-----------------------------------------------------------------------------
(* Formats *)

supportedFormats == {"jpeg", "png", "webp", "gif", "bmp", "ico", "tiff", "svg"}
unsupportedFormats == {"raw", "cr2", "nef", "arw", "dng", "psd", "ai", "eps",
                       "heic", "exr", "apng", "jp2"}
lossyFormats == {"jpeg", "webp"}

\* the values the format <select> can take: no choice, or a catalogued format
FormatOptions == {""} \cup supportedFormats \cup unsupportedFormats

\* a sample of the options: none, lossy with white fill, lossy, lossless, rejected
FormatSample == {"", "jpeg", "png", "raw"}

\* the formats of the selection specification: none, convertible, rejected
SelectFormats == {"", "jpeg", "raw"}

\* the formats of the specification of repeated conversions
RepeatFormats == {"jpeg", "raw"}

\* the characters of a format identifier
FormatChars(f) ==
    CASE f = "jpeg" -> <<"j","p","e","g">>
      [] f = "png"  -> <<"p","n","g">>
      [] f = "webp" -> <<"w","e","b","p">>
      [] f = "gif"  -> <<"g","i","f">>
      [] f = "bmp"  -> <<"b","m","p">>
      [] f = "ico"  -> <<"i","c","o">>
      [] f = "tiff" -> <<"t","i","f","f">>
      [] f = "svg"  -> <<"s","v","g">>
      [] f = "raw"  -> <<"r","a","w">>
      [] f = "cr2"  -> <<"c","r","2">>
      [] f = "nef"  -> <<"n","e","f">>
      [] f = "arw"  -> <<"a","r","w">>
      [] f = "dng"  -> <<"d","n","g">>
      [] f = "psd"  -> <<"p","s","d">>
      [] f = "ai"   -> <<"a","i">>
      [] f = "eps"  -> <<"e","p","s">>
      [] f = "heic" -> <<"h","e","i","c">>
      [] f = "exr"  -> <<"e","x","r">>
      [] f = "apng" -> <<"a","p","n","g">>
      [] f = "jp2"  -> <<"j","p","2">>
      [] OTHER      -> <<>>

-----------------------------------------------------------------------------
(* Files *)

MaxFileSize == 10 * 1024 * 1024

NoFile == [name |-> <<>>, type |-> <<>>, size |-> -1]

PhotoName == <<"m","y"," ","p","h","o","t","o","!","!",".","p","n","g">>
ArchiveName == <<"a","-","1","_","B",".","x",".","y">>

PngType == ImageSlash \o <<"p","n","g">>
TextType == <<"t","e","x","t","/","p","l","a","i","n">>
ImageNoSlashType == <<"i","m","a","g","e">>

\* an image of ordinary size, and one of exactly the largest accepted size
PhotoFile == [name |-> PhotoName, type |-> PngType, size |-> 1024]
ArchiveFile == [name |-> ArchiveName, type |-> PngType, size |-> MaxFileSize]
\* one byte too large, with an image type and without
HugeImageFile == [name |-> PhotoName, type |-> PngType, size |-> MaxFileSize + 1]
HugeTextFile == [name |-> ArchiveName, type |-> TextType, size |-> MaxFileSize + 1]
\* small files whose type does not start with 'image/'
TextFile == [name |-> ArchiveName, type |-> TextType, size |-> 1024]
NoSlashFile == [name |-> PhotoName, type |-> ImageNoSlashType, size |-> 1024]

Files == {PhotoFile, ArchiveFile, HugeImageFile, HugeTextFile, TextFile, NoSlashFile}

\* e.target.files[0] / e.dataTransfer.files[0]: a file, or undefined
FileInputs == Files \cup {NoFile}

\* a sample of the inputs: two accepted files, a rejected one, none
SampleFileInputs == {PhotoFile, ArchiveFile, TextFile, NoFile}

\* the inputs of the specification of repeated conversions
RepeatFileInputs == {PhotoFile, ArchiveFile, TextFile}

\* the inputs of the catalogue specification: one file of each outcome
CatalogFileInputs == {PhotoFile, ArchiveFile, HugeImageFile, TextFile, NoFile}

-----------------------------------------------------------------------------
(* Messages *)

MsgSelectInvalid == "Please select a valid image file."
MsgDropInvalid == "Please drop a valid image file."
MsgTooLarge == "File is too large. Maximum size is 10MB."
MsgUnsupported ==
    "Conversion for this format is not supported in-browser. Use a desktop app instead."
MsgLoadFailed == "Failed to load image. Please try a different file."
MsgConvFailed == "Conversion failed. Please try again."

ElementIds == {"formatSection", "errorSection", "convertBtn", "qualitySection",
               "progressSection", "downloadSection", "imagePreview"}

\* canvas.toDataURL(...) of no conversion: the link as the page loads it
NoDataUrl == [file |-> NoFile, mime |-> <<>>, canvas |-> <<>>, conv |-> 0]
NoDownload == [href |-> NoDataUrl, fileName |-> <<>>]

-----------------------------------------------------------------------------
(* The state as one record, and the methods of ImageConverter *)

St == [currentFile |-> currentFile, formatValue |-> formatValue, hidden |-> hidden,
       errorMessage |-> errorMessage, convertBtn |-> convertBtn,
       progress |-> progress, preview |-> preview, previewReads |-> previewReads,
       convs |-> convs, download |-> download]

Becomes(s) ==
    /\ errorMessage' = s.errorMessage
    /\ hidden' = s.hidden
    /\ convs' = s.convs
    /\ formatValue' = s.formatValue
    /\ currentFile' = s.currentFile
    /\ previewReads' = s.previewReads
    /\ preview' = s.preview
    /\ convertBtn' = s.convertBtn
    /\ progress' = s.progress
    /\ download' = s.download

showElement(s, id) == [s EXCEPT !.hidden[id] = FALSE]

hideElement(s, id) == [s EXCEPT !.hidden[id] = TRUE]

showError(s, message) ==
    showElement([s EXCEPT !.errorMessage = message], "errorSection")

\* clearError also dropping the selected file, as a full reset would
clearError_DropsFile(s) ==
    hideElement([s EXCEPT !.errorMessage = "", !.currentFile = NoFile],
                "errorSection")

clearError(s) ==
    hideElement([s EXCEPT !.errorMessage = ""], "errorSection")

\* showProgress without disabling the convert button
showProgress_NoDisable(s) ==
    [showElement(s, "progressSection")
        EXCEPT !.convertBtn = [disabled |-> FALSE, processing |-> TRUE]]

showProgress(s) ==
    [showElement(s, "progressSection")
        EXCEPT !.convertBtn = [disabled |-> TRUE, processing |-> TRUE]]

hideProgress(s) ==
    [hideElement(s, "progressSection")
        EXCEPT !.convertBtn = [disabled |-> FALSE, processing |-> FALSE]]

updateProgress(s, percent, text) ==
    [s EXCEPT !.progress = [percent |-> percent, text |-> text]]

\* showImagePreview displaying the file at once, without waiting for the read
showImagePreview_Immediate(s, file) ==
    showElement([s EXCEPT !.preview = file], "imagePreview")

\* new FileReader(); reader.readAsDataURL(file): the read is pending
showImagePreview(s, file) ==
    [s EXCEPT !.previewReads = @ \cup {file}]

\* handleFileSelect starting over on a new file: the old download is hidden
handleFileSelect_HidesDownload(s, file) ==
    IF file = NoFile \/ ~startsWith(file.type, ImageSlash)
    THEN showError(s, MsgSelectInvalid)
    ELSE IF file.size > MaxFileSize
    THEN showError(s, MsgTooLarge)
    ELSE hideElement(
           hideElement(
             showElement(
               showImagePreview([s EXCEPT !.currentFile = file], file),
               "formatSection"),
             "errorSection"),
           "downloadSection")

\* handleFileSelect without the size validation
handleFileSelect_NoSizeCheck(s, file) ==
    IF file = NoFile \/ ~startsWith(file.type, ImageSlash)
    THEN showError(s, MsgSelectInvalid)
    ELSE hideElement(
           showElement(
             showImagePreview([s EXCEPT !.currentFile = file], file),
             "formatSection"),
           "errorSection")

\* handleFileSelect storing the file before it validates it
handleFileSelect_StoreFirst(s, file) ==
    LET s0 == [s EXCEPT !.currentFile = file]
    IN  IF file = NoFile \/ ~startsWith(file.type, ImageSlash)
        THEN showError(s0, MsgSelectInvalid)
        ELSE IF file.size > MaxFileSize
        THEN showError(s0, MsgTooLarge)
        ELSE hideElement(
               showElement(showImagePreview(s0, file), "formatSection"),
               "errorSection")

handleFileSelect(s, file) ==
    IF file = NoFile \/ ~startsWith(file.type, ImageSlash)
    THEN showError(s, MsgSelectInvalid)
    ELSE IF file.size > MaxFileSize
    THEN showError(s, MsgTooLarge)
    ELSE hideElement(
           showElement(
             showImagePreview([s EXCEPT !.currentFile = file], file),
             "formatSection"),
           "errorSection")

\* handleFormatChange without the branch for the unsupported formats
handleFormatChange_NoReject(s) ==
    LET format == s.formatValue
    IN  IF format = ""
        THEN hideElement(hideElement(s, "convertBtn"), "qualitySection")
        ELSE LET s1 == hideElement(s, "errorSection")
                 s2 == IF format \in lossyFormats
                       THEN showElement(s1, "qualitySection")
                       ELSE hideElement(s1, "qualitySection")
             IN  showElement(s2, "convertBtn")

\* handleFormatChange showing the quality settings for jpeg alone
handleFormatChange_JpegOnly(s) ==
    LET format == s.formatValue
    IN  IF format = ""
        THEN hideElement(hideElement(s, "convertBtn"), "qualitySection")
        ELSE IF format \in unsupportedFormats
        THEN hideElement(
               hideElement(showError(s, MsgUnsupported), "convertBtn"),
               "qualitySection")
        ELSE LET s1 == hideElement(s, "errorSection")
                 s2 == IF format = "jpeg"
                       THEN showElement(s1, "qualitySection")
                       ELSE hideElement(s1, "qualitySection")
             IN  showElement(s2, "convertBtn")

handleFormatChange(s) ==
    LET format == s.formatValue
    IN  IF format = ""
        THEN hideElement(hideElement(s, "convertBtn"), "qualitySection")
        ELSE IF format \in unsupportedFormats
        THEN hideElement(
               hideElement(showError(s, MsgUnsupported), "convertBtn"),
               "qualitySection")
        ELSE LET s1 == hideElement(s, "errorSection")
                 s2 == IF format \in lossyFormats
                       THEN showElement(s1, "qualitySection")
                       ELSE hideElement(s1, "qualitySection")
             IN  showElement(s2, "convertBtn")

\* The synchronous part of convertImage (the body of its try block).  syncThrows
\* says whether a statement of the try block throws after the first progress
\* report, which the catch clause then handles.
convertImage(s, syncThrows) ==
    LET format == s.formatValue
    IN  IF s.currentFile = NoFile \/ format = ""
        THEN s
        ELSE LET s1 == updateProgress(showProgress(s), 20, "Loading image...")
             IN  IF syncThrows
                 THEN hideProgress(showError(s1, MsgConvFailed))
                 ELSE [s1 EXCEPT !.convs = Append(@,
                          [pc |-> "reading", file |-> s.currentFile,
                           format |-> format, canvas |-> <<>>,
                           reported |-> <<20>>, dataUrl |-> NoDataUrl])]

\* reader.onload of convertImage: img.src = e.target.result
convertReaderOnLoad(s, i) == [s EXCEPT !.convs[i].pc = "decoding"]

\* The record of a conversion whose last callback has returned: the closure
\* (file read, format, image, canvas) is unreachable from then on, and what
\* stays is how it ended, what was drawn and which progress it reported.
Ended(c, how, canvas, reported) ==
    [pc |-> how, file |-> NoFile, format |-> "", canvas |-> canvas,
     reported |-> c.reported \o reported, dataUrl |-> NoDataUrl]

\* the FileReader of convertImage fails: no onerror listener is attached
convertReaderOnError(s, i) ==
    [s EXCEPT !.convs[i] = Ended(@, "readFailed", <<>>, <<>>)]

ThrowPoints == {"none", "fill", "draw", "encode"}

\* img.onload painting the white background after the image instead of before
imgOnLoad_FillAfterDraw(s, i, throwAt) ==
    LET c == s.convs[i]
        format == c.format
        s50 == updateProgress(s, 50, "Processing image...")
        filled == IF format = "jpeg" THEN <<"fillWhite">> ELSE <<>>
        drawn == <<"drawImage">> \o filled
        s80 == updateProgress(s50, 80, "Converting format...")
        convertedDataUrl == [file |-> c.file,
                             mime |-> ImageSlash \o FormatChars(format),
                             canvas |-> drawn, conv |-> i]
        s100 == updateProgress(s80, 100, "Complete!")
    IN  IF throwAt = "draw" \/ (format = "jpeg" /\ throwAt = "fill")
        THEN [s50 EXCEPT !.convs[i] = Ended(c, "threw", <<>>, <<50>>)]
        ELSE IF throwAt = "encode"
        THEN [s80 EXCEPT !.convs[i] = Ended(c, "threw", drawn, <<50, 80>>)]
        ELSE [s100 EXCEPT !.convs[i] =
                [c EXCEPT !.pc = "timer", !.canvas = drawn,
                          !.reported = @ \o <<50, 80, 100>>,
                          !.dataUrl = convertedDataUrl]]

\* img.onload.  throwAt names the canvas call that throws, if any; an exception
\* in this callback is outside the try block of convertImage and ends the
\* callback where it is raised.
imgOnLoad(s, i, throwAt) ==
    LET c == s.convs[i]
        format == c.format
        s50 == updateProgress(s, 50, "Processing image...")
        filled == IF format = "jpeg" THEN <<"fillWhite">> ELSE <<>>
        drawn == Append(filled, "drawImage")
        s80 == updateProgress(s50, 80, "Converting format...")
        mimeType == ImageSlash \o FormatChars(format)
        convertedDataUrl == [file |-> c.file, mime |-> mimeType,
                             canvas |-> drawn, conv |-> i]
        s100 == updateProgress(s80, 100, "Complete!")
    IN  IF format = "jpeg" /\ throwAt = "fill"
        THEN [s50 EXCEPT !.convs[i] = Ended(c, "threw", <<>>, <<50>>)]
        ELSE IF throwAt = "draw"
        THEN [s50 EXCEPT !.convs[i] = Ended(c, "threw", filled, <<50>>)]
        ELSE IF throwAt = "encode"
        THEN [s80 EXCEPT !.convs[i] = Ended(c, "threw", drawn, <<50, 80>>)]
        ELSE [s100 EXCEPT !.convs[i] =
                [c EXCEPT !.pc = "timer", !.canvas = drawn,
                          !.reported = @ \o <<50, 80, 100>>,
                          !.dataUrl = convertedDataUrl]]

\* img.onerror without the call of hideProgress
imgOnError_NoHideProgress(s, i) ==
    showError([s EXCEPT !.convs[i] = Ended(@, "loadFailed", <<>>, <<>>)],
              MsgLoadFailed)

imgOnError(s, i) ==
    hideProgress(showError(
        [s EXCEPT !.convs[i] = Ended(@, "loadFailed", <<>>, <<>>)],
        MsgLoadFailed))

showDownload(s, dataUrl, format) ==
    LET originalName == splitDotFirst(replaceUnsafe(s.currentFile.name))
        fileName == originalName \o ConvertedDot \o FormatChars(format)
    IN  showElement(
          hideProgress([s EXCEPT !.download = [href |-> dataUrl,
                                               fileName |-> fileName]]),
          "downloadSection")

\* the setTimeout callback reading the format select again when it runs
timerFires_CurrentFormat(s, i) ==
    showDownload([s EXCEPT !.convs[i] = Ended(@, "done", @.canvas, <<>>)],
                 s.convs[i].dataUrl, s.formatValue)

\* the setTimeout callback of img.onload, 500 ms after the encoding
timerFires(s, i) ==
    showDownload([s EXCEPT !.convs[i] = Ended(@, "done", @.canvas, <<>>)],
                 s.convs[i].dataUrl, s.convs[i].format)

\* reader.onload of showImagePreview
previewReaderOnLoad(s, file) ==
    showElement([s EXCEPT !.preview = file, !.previewReads = @ \ {file}],
                "imagePreview")

\* the FileReader of showImagePreview fails: no onerror listener is attached
previewReaderOnError(s, file) == [s EXCEPT !.previewReads = @ \ {file}]

-----------------------------------------------------------------------------
(* The page after DOMContentLoaded: new ImageConverter() *)

Init ==
    /\ currentFile = NoFile
    /\ formatValue = ""
    /\ hidden = [id \in ElementIds |-> TRUE]
    /\ errorMessage = ""
    /\ convertBtn = [disabled |-> FALSE, processing |-> FALSE]
    /\ progress = [percent |-> 0, text |-> ""]
    /\ preview = NoFile
    /\ previewReads = {}
    /\ convs = <<>>
    /\ download = NoDownload

-----------------------------------------------------------------------------
(* Event listeners *)

\* a selection keeps the number of pending preview reads within the bound
CanSelect(file) ==
    IF Cardinality(previewReads) < MaxPreviewReads
    THEN TRUE
    ELSE handleFileSelect(St, file).previewReads = previewReads

\* fileInput 'change'
FileInputChange(file) ==
    /\ CanSelect(file)
    /\ Becomes(handleFileSelect(clearError(St), file))

\* uploadArea 'drop'
dropHandler(s, file) ==
    IF file # NoFile /\ startsWith(file.type, ImageSlash)
    THEN handleFileSelect(clearError(s), file)
    ELSE showError(s, MsgDropInvalid)

Drop(file) ==
    /\ CanSelect(file)
    /\ Becomes(dropHandler(St, file))

\* formatSelect 'change': the browser sets the value, then runs the listener
FormatSelectChange(format) ==
    /\ Becomes(handleFormatChange([St EXCEPT !.formatValue = format]))

\* convertBtn 'click': a disabled button dispatches no click event
ConvertClick(syncThrows) ==
    /\ ~convertBtn.disabled
    /\ Len(convs) < MaxConversions
    /\ Becomes(convertImage(St, syncThrows))

PreviewReaderOnLoad(file) ==
    /\ file \in previewReads
    /\ Becomes(previewReaderOnLoad(St, file))

PreviewReaderOnError(file) ==
    /\ file \in previewReads
    /\ Becomes(previewReaderOnError(St, file))

ConvertReaderOnLoad(i) ==
    /\ convs[i].pc = "reading"
    /\ Becomes(convertReaderOnLoad(St, i))

ConvertReaderOnError(i) ==
    /\ convs[i].pc = "reading"
    /\ Becomes(convertReaderOnError(St, i))

ImgOnLoad(i, throwAt) ==
    /\ convs[i].pc = "decoding"
    /\ throwAt = "fill" => convs[i].format = "jpeg"
    /\ Becomes(imgOnLoad(St, i, throwAt))

ImgOnError(i) ==
    /\ convs[i].pc = "decoding"
    /\ Becomes(imgOnError(St, i))

TimerFires(i) ==
    /\ convs[i].pc = "timer"
    /\ Becomes(timerFires(St, i))

\* One step of the page: a user event with its input drawn from files and
\* formats, or the completion of a pending asynchronous operation.
NextOn(files, formats) ==
    \/ \E file \in files : FileInputChange(file)
    \/ \E file \in files : Drop(file)
    \/ \E format \in formats : FormatSelectChange(format)
    \/ \E syncThrows \in BOOLEAN : ConvertClick(syncThrows)
    \/ \E file \in previewReads : PreviewReaderOnLoad(file)
    \/ \E file \in previewReads : PreviewReaderOnError(file)
    \/ \E i \in DOMAIN convs : ConvertReaderOnLoad(i)
    \/ \E i \in DOMAIN convs : ConvertReaderOnError(i)
    \/ \E i \in DOMAIN convs : \E throwAt \in ThrowPoints : ImgOnLoad(i, throwAt)
    \/ \E i \in DOMAIN convs : ImgOnError(i)
    \/ \E i \in DOMAIN convs : TimerFires(i)

Next == NextOn(SampleFileInputs, FormatSample)

Spec == Init /\ [][Next]_vars

\* every file input, with fewer formats
NextSelect == NextOn(FileInputs, SelectFormats)

SpecSelect == Init /\ [][NextSelect]_vars

\* convertBtn 'click' in the specification of repeated conversions
RepeatClick(syncThrows) ==
    /\ ~convertBtn.disabled
    /\ Len(convs) < MaxRepeats
    /\ Becomes(convertImage(St, syncThrows))

\* One file of each outcome and one format of each kind, with conversions
\* started one after the other.
NextRepeat ==
    \/ \E file \in RepeatFileInputs : FileInputChange(file)
    \/ \E file \in RepeatFileInputs : Drop(file)
    \/ \E format \in RepeatFormats : FormatSelectChange(format)
    \/ \E syncThrows \in BOOLEAN : RepeatClick(syncThrows)
    \/ \E file \in previewReads : PreviewReaderOnLoad(file)
    \/ \E file \in previewReads : PreviewReaderOnError(file)
    \/ \E i \in DOMAIN convs : ConvertReaderOnLoad(i)
    \/ \E i \in DOMAIN convs : ConvertReaderOnError(i)
    \/ \E i \in DOMAIN convs : \E throwAt \in ThrowPoints : ImgOnLoad(i, throwAt)
    \/ \E i \in DOMAIN convs : ImgOnError(i)
    \/ \E i \in DOMAIN convs : TimerFires(i)

SpecRepeat == Init /\ [][NextRepeat]_vars

\* The page up to the first click on the convert button, with every option
\* of the format catalogue: selection, format choice and preview.
NextCatalog ==
    \/ \E file \in CatalogFileInputs : FileInputChange(file)
    \/ \E file \in CatalogFileInputs : Drop(file)
    \/ \E format \in FormatOptions : FormatSelectChange(format)
    \/ \E file \in previewReads : PreviewReaderOnLoad(file)
    \/ \E file \in previewReads : PreviewReaderOnError(file)

SpecCatalog == Init /\ [][NextCatalog]_vars

-----------------------------------------------------------------------------
(* Properties *)

IsImageFile(file) == file # NoFile /\ startsWith(file.type, ImageSlash)

ErrorShown(message) == errorMessage = message /\ ~hidden["errorSection"]

InFlight(i) == convs[i].pc \in {"reading", "decoding", "timer"}

\* the name cut at its first '.', then stripped of the characters outside
\* [A-Za-z0-9_-], then suffixed
DerivedFileName(name, format) ==
    replaceUnsafe(splitDotFirst(name)) \o ConvertedDot \o FormatChars(format)

\* C1: the download file name written by showDownload is the original name
\* cut at its first '.', with every character outside [A-Za-z0-9_-] removed,
\* followed by '_converted.<format>'.

C1_FileNameDerivation ==
    [][\A i \in DOMAIN convs :
         TimerFires(i) =>
           download'.fileName = DerivedFileName(currentFile.name, convs[i].format)
      ]_vars

\* C2 as stated: selecting any file larger than 10 MiB, whatever its type,
\* shows the too-large error and does not store the file.
C2_TooLargeAnyType ==
    [][\A file \in Files :
         (file.size > MaxFileSize /\ (FileInputChange(file) \/ Drop(file))) =>
           (ErrorShown(MsgTooLarge)' /\ currentFile' = currentFile)
      ]_vars

\* C2 amended: selecting a file larger than 10 MiB never stores it, and shows
\* the too-large error when its type starts with 'image/'.
C2_TooLargeImage ==
    [][\A file \in Files :
         (file.size > MaxFileSize /\ (FileInputChange(file) \/ Drop(file))) =>
           /\ currentFile' = currentFile
           /\ IsImageFile(file) => ErrorShown(MsgTooLarge)'
      ]_vars

C2_Witness ==
    /\ ErrorShown(MsgTooLarge)
    /\ currentFile = PhotoFile

\* the stored file and the visibility of the format section, the convert
\* button and the download section stay as they were
C3_Frame ==
    /\ currentFile' = currentFile
    /\ \A id \in {"formatSection", "convertBtn", "downloadSection"} :
         hidden'[id] = hidden[id]

\* C3: selecting a file (or none) whose type does not start with 'image/'
\* shows an invalid-file message and leaves the stored file and the visibility
\* of the format section, the convert button and the download section as
\* they were.

C3_InvalidType ==
    [][\A file \in FileInputs :
         ~IsImageFile(file) =>
           /\ FileInputChange(file) =>
                ErrorShown(MsgSelectInvalid)' /\ C3_Frame
           /\ Drop(file) =>
                ErrorShown(MsgDropInvalid)' /\ C3_Frame
      ]_vars

C3_Witness ==
    /\ ErrorShown(MsgDropInvalid)
    /\ currentFile = ArchiveFile
    /\ ~hidden["formatSection"]
    /\ ~hidden["convertBtn"]
    /\ ~hidden["downloadSection"]

\* C4: choosing a rejected format shows the unsupported-format error and
\* leaves the convert button and the quality section hidden.
C4_RejectedFormat ==
    [][\A format \in unsupportedFormats :
         FormatSelectChange(format) =>
           /\ ErrorShown(MsgUnsupported)'
           /\ hidden'["convertBtn"]
           /\ hidden'["qualitySection"]
      ]_vars

C4_Witness ==
    /\ formatValue = "jp2"
    /\ ErrorShown(MsgUnsupported)
    /\ hidden["convertBtn"]
    /\ hidden["qualitySection"]
    /\ currentFile # NoFile

\* C5: choosing a convertible format shows the convert button, hides the
\* error section, and shows the quality section exactly for jpeg and webp.
C5_ConvertibleFormat ==
    [][\A format \in supportedFormats :
         FormatSelectChange(format) =>
           /\ ~hidden'["convertBtn"]
           /\ hidden'["errorSection"]
           /\ ~hidden'["qualitySection"] <=> format \in {"jpeg", "webp"}
      ]_vars

C5_Witness ==
    /\ formatValue = "webp"
    /\ ~hidden["convertBtn"]
    /\ ~hidden["qualitySection"]
    /\ hidden["errorSection"]
    /\ errorMessage = MsgUnsupported

\* C6: convert() changes nothing unless a source file is stored and the
\* selected format is in the convertible set.
C6_ConvertPrecondition ==
    [][\A syncThrows \in BOOLEAN :
         (ConvertClick(syncThrows)
            /\ ~(currentFile # NoFile /\ formatValue \in supportedFormats)) =>
           UNCHANGED vars
      ]_vars

\* C7: when the image decode of a conversion fails, the load-failure message
\* is shown, the progress section is hidden, the convert button is enabled,
\* and the download link never carries a result of that conversion.
C7_DecodeFailure ==
    /\ [][\A i \in DOMAIN convs :
            ImgOnError(i) =>
              /\ ErrorShown(MsgLoadFailed)'
              /\ hidden'["progressSection"]
              /\ ~convertBtn'.disabled
              /\ download' = download
              /\ hidden'["downloadSection"] = hidden["downloadSection"]
         ]_vars
    /\ [](\A i \in DOMAIN convs :
            convs[i].pc = "loadFailed" => download.href.conv # i)

C7_Witness ==
    \E i \in DOMAIN convs :
        /\ convs[i].pc = "loadFailed"
        /\ ErrorShown(MsgLoadFailed)
        /\ hidden["progressSection"]
        /\ ~convertBtn.disabled
        /\ download = NoDownload

\* C8: an exception raised while a conversion sizes, fills, draws or encodes,
\* also inside the decode-completion callback, shows the conversion-failed
\* message, hides the progress section and enables the convert button.
C8_UnexpectedFailure ==
    [][/\ ConvertClick(TRUE) /\ currentFile # NoFile /\ formatValue # "" =>
            /\ ErrorShown(MsgConvFailed)'
            /\ hidden'["progressSection"]
            /\ ~convertBtn'.disabled
       /\ \A i \in DOMAIN convs : \A throwAt \in ThrowPoints \ {"none"} :
            ImgOnLoad(i, throwAt) =>
              /\ ErrorShown(MsgConvFailed)'
              /\ hidden'["progressSection"]
              /\ ~convertBtn'.disabled
      ]_vars

\* C9: the convert button is never left disabled for good: once no callback
\* of a conversion is pending, the progress section is hidden and the convert
\* button is enabled.
C9_ActionableAgain ==
    (\A i \in DOMAIN convs : ~InFlight(i)) =>
        /\ hidden["progressSection"]
        /\ ~convertBtn.disabled

C11_ErrorClearedByValidAction ==
    [][/\ \A file \in Files :
            ((FileInputChange(file) \/ Drop(file))
               /\ IsImageFile(file) /\ file.size <= MaxFileSize) =>
              hidden'["errorSection"]
       /\ \A format \in supportedFormats :
            FormatSelectChange(format) => hidden'["errorSection"]
       /\ (ConvertClick(FALSE) /\ formatValue \in supportedFormats
             /\ Len(convs') > Len(convs)) =>
            hidden'["errorSection"]
      ]_vars

\* C12: clearError hides the error section, empties the message and leaves
\* everything else as it is, in whatever state it is called.
C12_ClearErrorFrame ==
    LET s == clearError(St)
    IN  /\ s.errorMessage = ""
        /\ s.hidden["errorSection"]
        /\ \A id \in ElementIds \ {"errorSection"} : s.hidden[id] = hidden[id]
        /\ s.currentFile = currentFile
        /\ s.formatValue = formatValue
        /\ s.convertBtn = convertBtn
        /\ s.progress = progress
        /\ s.preview = preview
        /\ s.previewReads = previewReads
        /\ s.convs = convs
        /\ s.download = download

\* an error is showing over a stored file, a chosen format, a running
\* conversion: clearError has something to clear and much to keep
C12_Witness ==
    /\ ErrorShown(MsgDropInvalid)
    /\ currentFile = PhotoFile
    /\ formatValue = "jpeg"
    /\ ~hidden["convertBtn"]
    /\ ~hidden["progressSection"]
    /\ convertBtn.disabled
    /\ clearError(St).errorMessage = ""
    /\ clearError(St).hidden["errorSection"]

IsAccepted(file) == IsImageFile(file) /\ file.size <= MaxFileSize

\* C13 as stated: while the preview read of a selected file is pending, the
\* file is not yet the stored file that convert() would use.
C13_DependentsAfterRead ==
    \A file \in previewReads : currentFile # file

\* C13 amended: the preview display changes only when a preview read
\* completes, and shows the file that was read; the other effects of a
\* successful selection (file stored, format section revealed, error section
\* hidden) are there as soon as the selection returns, with the read pending.
C13_PreviewAfterRead ==
    [][/\ (preview' # preview \/ hidden'["imagePreview"] # hidden["imagePreview"]) =>
            \E file \in previewReads :
                PreviewReaderOnLoad(file) /\ preview' = file
       /\ \A file \in Files :
            (IsAccepted(file) /\ (FileInputChange(file) \/ Drop(file))) =>
              /\ file \in previewReads'
              /\ currentFile' = file
              /\ ~hidden'["formatSection"]
              /\ hidden'["errorSection"]
              /\ preview' = preview
      ]_vars

C13_Witness ==
    /\ currentFile = ArchiveFile
    /\ ArchiveFile \in previewReads
    /\ preview = PhotoFile
    /\ ~hidden["imagePreview"]
    /\ ~hidden["formatSection"]

\* C14: while a conversion is in flight (reading, decoding, or in the delay
\* before showDownload) the convert button is disabled, and at most one
\* conversion is in flight.
C14_DisabledWhileInFlight ==
    /\ (\E i \in DOMAIN convs : InFlight(i)) => convertBtn.disabled
    /\ Cardinality({i \in DOMAIN convs : InFlight(i)}) <= 1

\* a second conversion, started after the first completed, in its delay
C14_Witness ==
    /\ Len(convs) = 2
    /\ convs[1].pc = "done"
    /\ convs[2].pc = "timer"
    /\ convertBtn.disabled
    /\ ~hidden["downloadSection"]

\* C19: once a completed conversion has revealed the download section,
\* nothing hides it again, and the link keeps the result of the last
\* completed conversion whatever happens next.
C19_DownloadStays ==
    /\ [][~hidden["downloadSection"] => ~hidden'["downloadSection"]]_vars
    /\ [][download' # download => \E i \in DOMAIN convs : TimerFires(i)]_vars
    /\ [](~hidden["downloadSection"] =>
            /\ download.href.conv \in DOMAIN convs
            /\ convs[download.href.conv].pc = "done"
            /\ \A j \in DOMAIN convs :
                 convs[j].pc = "done" => j <= download.href.conv)

\* Done and Error in one state: the download of the first conversion is
\* visible while an error shows, another file is stored and a second
\* conversion is running
C19_Witness ==
    /\ ~hidden["downloadSection"]
    /\ download.href.conv = 1
    /\ download.href.file = PhotoFile
    /\ currentFile = ArchiveFile
    /\ ErrorShown(MsgUnsupported)
    /\ Len(convs) = 2
    /\ InFlight(2)

endsWith(s, p) ==
    Len(s) >= Len(p) /\ SubSeq(s, Len(s) - Len(p) + 1, Len(s)) = p

Checkpoints == <<20, 50, 80, 100>>

HasStep(canvas, step) == \E k \in DOMAIN canvas : canvas[k] = step

\* C16: img.onload fills the canvas with white exactly when the format of
\* the conversion is jpeg, and then before it draws the image and before
\* it encodes; for any other format the image is drawn on the unfilled
\* canvas.
C16_WhiteFillIffJpeg ==
    /\ [][\A i \in DOMAIN convs : \A throwAt \in ThrowPoints :
            ImgOnLoad(i, throwAt) =>
              LET canvas == convs'[i].canvas
                  jpeg == convs[i].format = "jpeg"
              IN  /\ HasStep(canvas, "fillWhite") =>
                       jpeg /\ canvas[1] = "fillWhite"
                  /\ HasStep(canvas, "drawImage") =>
                       canvas = IF jpeg THEN <<"fillWhite", "drawImage">>
                                        ELSE <<"drawImage">>
                  /\ throwAt = "none" =>
                       /\ HasStep(canvas, "drawImage")
                       /\ convs'[i].dataUrl.canvas = canvas]_vars
    /\ [](download.href.conv # 0 =>
            download.href.canvas =
              IF download.href.mime = ImageSlash \o FormatChars("jpeg")
              THEN <<"fillWhite", "drawImage">>
              ELSE <<"drawImage">>)

\* a jpeg conversion after encoding: filled, then drawn
C16_Witness ==
    /\ Len(convs) = 1
    /\ convs[1].pc = "timer"
    /\ convs[1].format = "jpeg"
    /\ convs[1].canvas = <<"fillWhite", "drawImage">>
    /\ convs[1].dataUrl.canvas = <<"fillWhite", "drawImage">>

\* C17: the file name of the download is derived from the file whose bytes
\* the conversion read and encoded, also when another file is selected
\* while the conversion is in flight or waits for its timer.
C17_StemFromEncodedFile ==
    download.href.conv # 0 =>
      startsWith(download.fileName,
                 splitDotFirst(replaceUnsafe(download.href.file.name))
                   \o ConvertedDot)

\* C18: when the last pending preview read completes, the preview shows the
\* stored file.  Stated for a preview that showed the stored file before
\* the step, so that only the completion order of the reads decides it.
C18_PreviewOfStoredFile ==
    [][\A file \in previewReads :
         (/\ preview = currentFile
          /\ PreviewReaderOnLoad(file)
          /\ previewReads' = {}) =>
           preview' = currentFile']_vars

=============================================================================
